---- MODULE Spec2Model ----
(***************************************************************************)
(* SQLiteMemory (agenesis/memory/persistent.py): the memory_records table, *)
(* the sqlite-vss mirror table with its triggers, the in-process embedding *)
(* cache, and the operations of one SQLiteMemory instance on one db_path;   *)
(* WorkingMemory and ImmediateMemory (agenesis/memory/working.py,          *)
(* immediate.py) and the storing step of Agent.process_input, which hands  *)
(* one record to the three of them.                                        *)
(*                                                                         *)
(* Python values are tagged tuples (<<"None">>, <<"list", v>>,             *)
(* <<"dict", d>>); TEXT columns are <<"text", value>>, SQL NULL is         *)
(* <<"NULL">>, and a TEXT that json.loads rejects is <<"garbage">>.        *)
(* Similarity scores are hundredths (100 = cosine 1.0).                    *)
(***************************************************************************)
EXTENDS Integers, Sequences, FiniteSets

\* ---------------------------------------------------------------- bounds
MaxRows == 2      \* rows the table may hold
MaxTime == 2      \* clock ticks / distinct stored_at values
MaxLimit == 2     \* largest limit / count argument
MaxBatch == 2     \* longest embeddings_data list
MaxThreads == 2   \* threads searching through one instance
MaxCandidates == 3 \* longest candidate_embeddings list
MaxRetries == 2   \* times sqlite3's busy handler waits before it gives up
MaxCapacity == 2  \* largest max_capacity of a WorkingMemory
MaxUuids == 6     \* uuid4() values drawn for records

\* ---------------------------------------------------------- value spaces
PyNone == <<"None">>
PyList(v) == <<"list", v>>
PyDict(d) == <<"dict", d>>
SqlNull == <<"NULL">>
Garbage == <<"garbage">>

\* embedding vectors: two directions and the zero vector the embedding
\* provider returns on failure
Vecs == { <<1, 0>>, <<3, 4>>, <<0, 0>> }
Embeddings == {PyNone, PyList(<<>>)} \cup {PyList(v) : v \in Vecs}
EvolutionMetadatas == {PyNone, PyDict(<<>>), PyDict(<<1>>)}
\* query vectors: a direction, and the zero vector
Queries == { <<1, 0>>, <<0, 0>> }
MinSimilarities == {0, 70}
Limits == 0..MaxLimit
Times == 1..MaxTime
\* perception_result.content
Contents == {"a", "b"}

\* Python truthiness of None / list / dict
Truthy(x) == x # PyNone /\ x[2] # <<>>

\* json.dumps / json.loads
json_dumps(x) == <<"text", x>>
json_decodable(t) == t[1] = "text"
json_loads(t) == t[2]

\* ------------------------------------------------------------ similarity
Dot(a, b) == a[1] * b[1] + a[2] * b[2]
ISqrt(n) == CHOOSE r \in 0..n : r * r <= n /\ n < (r + 1) * (r + 1)
\* np.linalg.norm, tabulated once over the vectors in use
Norms == [a \in Vecs |-> ISqrt(Dot(a, a))]
Norm(a) == Norms[a]
\* numpy: x / 0.0 is nan, and nan >= t is False
IsNaN(q, v) == Norm(q) = 0 \/ Norm(v) = 0
\* dot product of the two normalised vectors, in hundredths
Similarities ==
  [q \in Vecs, v \in Vecs |->
     IF Norms[q] = 0 \/ Norms[v] = 0 THEN 0
     ELSE (100 * Dot(q, v)) \div (Norms[q] * Norms[v])]
NpSimilarity(q, v) == Similarities[q, v]

\* ----------------------------------------------------------------- state
VARIABLES
  vector_search_enabled,   \* self.vector_search_enabled
  enable_index_caching,    \* self.enable_index_caching
  triggers,                \* the file holds vss_memory_embeddings + triggers
  rows,                    \* table memory_records, position = rowid
  vss,                     \* table vss_memory_embeddings: {<<rowid, vector>>}
  _embedding_cache,        \* self._embedding_cache
  _rowid_cache,            \* self._rowid_cache
  _cache_record_count,     \* self._cache_record_count
  now,                     \* datetime.now()
  last,                    \* the last call and what it returned
  threads,                 \* the searches in flight, one per thread
  txn,                     \* the write transaction in flight on another connection
  max_capacity,            \* WorkingMemory.max_capacity
  _records,                \* WorkingMemory._records
  _id_index,               \* WorkingMemory._id_index
  _current_record,         \* ImmediateMemory._current_record
  uuids                    \* how many uuid4() values were drawn for records

vars == <<vector_search_enabled, enable_index_caching, triggers, rows, vss,
          _embedding_cache, _rowid_cache, _cache_record_count, now, last,
          threads, txn, max_capacity, _records, _id_index, _current_record,
          uuids>>
\* the in-memory tiers beside the SQLiteMemory
tiers == <<max_capacity, _records, _id_index, _current_record, uuids>>
config == <<vector_search_enabled, enable_index_caching>>
cache == <<_embedding_cache, _rowid_cache, _cache_record_count>>

NoRecord == [id |-> 0, content |-> "", stored_at |-> 0, embedding |-> PyNone,
             evolution_metadata |-> PyNone]
NoStats == [total_records |-> 0, records_with_embeddings |-> 0,
            records_without_embeddings |-> 0, embedding_coverage |-> <<0, 1>>]
Idle == [op |-> "init", raised |-> FALSE, id |-> 0, rec |-> NoRecord,
         out |-> NoRecord, found |-> FALSE, flag |-> FALSE, n |-> 0,
         vec |-> <<0, 0>>, pairs |-> <<>>, limit |-> 0, min |-> 0,
         recs |-> <<>>, results |-> <<>>, tried |-> <<>>, stats |-> NoStats,
         cands |-> <<>>, waiting |-> "", busy |-> 0, locked |-> FALSE,
         ids |-> <<>>]

RowIds == 1..Len(rows)
HasId(id) == \E r \in RowIds : rows[r].id = id
RowOf(id) == CHOOSE r \in RowIds : rows[r].id = id
\* uuid4() never collides with an id in the table
NextId == Len(rows) + 1
Embedded(r) == rows[r].embedding # SqlNull
EmbeddedRows == {r \in RowIds : Embedded(r)}

\* MemoryRecord.__post_init__
MemoryRecord(id, stored_at, embedding, evolution_metadata) ==
  [id |-> IF id = 0 THEN NextId ELSE id,
   content |-> "a",
   stored_at |-> IF stored_at = 0 THEN now ELSE stored_at,
   embedding |-> embedding,
   evolution_metadata |-> evolution_metadata]

\* the column values _store_record_to_db binds
RowOfRecord(record) ==
  [id |-> record.id,
   content |-> record.content,
   stored_at |-> record.stored_at,
   embedding |-> IF Truthy(record.embedding)
                 THEN json_dumps(record.embedding) ELSE SqlNull,
   evolution_metadata |-> IF Truthy(record.evolution_metadata)
                          THEN json_dumps(record.evolution_metadata)
                          ELSE SqlNull,
   context_ok |-> TRUE]

\* (variant: the insert trigger does nothing)
memory_embedding_insert_absent(rowid, row) == {}
\* (variant: the insert trigger has no WHEN NEW.embedding IS NOT NULL)
memory_embedding_insert_unguarded(rowid, row) ==
  IF triggers
  THEN {<<rowid, IF row.embedding # SqlNull
                 THEN json_loads(row.embedding)[2] ELSE <<0, 0>> >>}
  ELSE {}
\* trigger memory_embedding_insert
memory_embedding_insert(rowid, row) ==
  IF triggers /\ row.embedding # SqlNull
  THEN {<<rowid, json_loads(row.embedding)[2]>>} ELSE {}

\* _row_to_record raises when a serialized field does not decode
RowDecodes(row) ==
  /\ row.context_ok
  /\ row.embedding # SqlNull => json_decodable(row.embedding)
  /\ row.evolution_metadata # SqlNull => json_decodable(row.evolution_metadata)

_row_to_record(row) ==
  [id |-> row.id,
   content |-> row.content,
   stored_at |-> row.stored_at,
   embedding |-> IF row.embedding # SqlNull
                 THEN json_loads(row.embedding) ELSE PyNone,
   evolution_metadata |-> IF row.evolution_metadata # SqlNull
                          THEN json_loads(row.evolution_metadata)
                          ELSE PyNone]

\* ------------------------------------------------------------------ Init
\* A database file may already hold a row when the instance opens it, and
\* (rows written before the index was enabled) the mirror may lack its entry.
ExistingRows ==
  [id : {1}, content : {"a"}, stored_at : {1},
   embedding : {SqlNull, json_dumps(PyList(<<1, 0>>))},
   evolution_metadata : {SqlNull}, context_ok : {TRUE}]
\* ... and a row of the file may hold a field that no longer decodes
DamagedRows ==
  [id : {1}, content : {"a"}, stored_at : {1},
   embedding : {SqlNull, Garbage, json_dumps(PyList(<<1, 0>>))},
   evolution_metadata : {SqlNull}, context_ok : BOOLEAN]
ExistingMirrors(rs) ==
  IF triggers
  THEN SUBSET {<<r, json_loads(rs[r].embedding)[2]>> :
                 r \in {x \in 1..Len(rs) : rs[x].embedding \notin {SqlNull, Garbage}}}
  ELSE {{}}

Threads == 1..MaxThreads
\* a search thread that is not inside _cached_similarity_search
NoArray == <<"array", <<>>>>
IdleThread == [pc |-> "idle", embeddings |-> NoArray, rowids |-> NoArray,
               seen_embeddings |-> NoArray, seen_rowids |-> NoArray]
\* no batch update in flight
NoTxn == [pc |-> "idle", pairs |-> <<>>, done |-> 0, fails_at |-> 0,
          before |-> <<>>, work |-> <<>>]

\* a SQLiteMemory on its own: the in-memory tiers as their __init__ leaves
\* them, with the default max_capacity out of play
NoTiers ==
  /\ max_capacity = MaxCapacity
  /\ _records = <<>>
  /\ _id_index = <<>>
  /\ _current_record = PyNone
  /\ uuids = 0

\* the state __init__ leaves, over a file holding one of the rows in Existing.
\* _init_database creates the vss table and its triggers when the index is
\* enabled; a file an enabled instance created keeps them when an instance
\* with the index disabled opens it.
Opened(Existing) ==
  /\ vector_search_enabled \in BOOLEAN
  /\ enable_index_caching \in BOOLEAN
  /\ triggers \in IF vector_search_enabled THEN {TRUE} ELSE BOOLEAN
  /\ threads = [t \in Threads |-> IdleThread]
  /\ txn = NoTxn
  /\ rows \in {<<>>} \cup {<<r>> : r \in Existing}
  /\ vss \in ExistingMirrors(rows)
  /\ _embedding_cache = PyNone
  /\ _rowid_cache = PyNone
  /\ _cache_record_count = 0
  /\ now = 1
  /\ last = Idle
  /\ NoTiers

Init == Opened(ExistingRows)
InitDamaged == Opened(DamagedRows)

\* --------------------------------------------------------------- actions
\* The INSERT statement compiles the trigger memory_embedding_insert with
\* it; the connection of _store_record_to_db has sqlite_vss loaded only when
\* the instance has the index enabled.
InsertCompiles == triggers => vector_search_enabled

\* _store_record_to_db: INSERT, the insert trigger, then _invalidate_cache
\* (which does nothing)
_store_record_to_db(op, record) ==
  IF ~InsertCompiles \/ HasId(record.id)
  THEN \* sqlite3.OperationalError (no such module: vss0), or PRIMARY KEY
       \* violation (sqlite3.IntegrityError): the caller gets the exception
       /\ last' = [Idle EXCEPT !.op = op, !.id = record.id, !.raised = TRUE]
       /\ UNCHANGED <<rows, vss>>
  ELSE /\ Len(rows) < MaxRows
       /\ rows' = Append(rows, RowOfRecord(record))
       /\ vss' = vss \cup memory_embedding_insert(Len(rows) + 1, RowOfRecord(record))
       /\ last' = [Idle EXCEPT !.op = op, !.rec = record, !.id = record.id]

\* store(perception_result, context): a fresh record, stored now, for a
\* perception_result whose content is in C
store_content(C) ==
  /\ \E t \in now..MaxTime, c \in C :
       /\ now' = t
       /\ _store_record_to_db("store",
            [id |-> NextId, content |-> c, stored_at |-> t,
             embedding |-> PyNone, evolution_metadata |-> PyNone])
  /\ UNCHANGED <<tiers, config, triggers, threads, txn, cache>>
store == store_content({"a"})

\* store_record(memory_record): the caller built the record, with a blank id
\* (0), or the id of a stored record, an embedding from E and
\* evolution_metadata from M
store_record(E, M) ==
  /\ \E id \in 0..Len(rows), t \in Times, e \in E, m \in M :
       _store_record_to_db("store_record", MemoryRecord(id, t, e, m))
  /\ UNCHANGED <<tiers, config, triggers, threads, txn, cache, now>>

\* retrieve(memory_id)
retrieve ==
  /\ \E id \in 1..NextId :
       IF ~HasId(id)
       THEN last' = [Idle EXCEPT !.op = "retrieve", !.id = id]
       ELSE IF ~RowDecodes(rows[RowOf(id)])
       THEN last' = [Idle EXCEPT !.op = "retrieve", !.id = id, !.raised = TRUE]
       ELSE last' = [Idle EXCEPT !.op = "retrieve", !.id = id, !.found = TRUE,
                                 !.out = _row_to_record(rows[RowOf(id)])]
  /\ UNCHANGED <<tiers, config, triggers, threads, txn, rows, vss, cache, now>>

\* ------------------------------------------------------- ordering helpers
Min(a, b) == IF a <= b THEN a ELSE b
Perms(S) ==
  {p \in [1..Cardinality(S) -> S] :
     \A i, j \in 1..Cardinality(S) : i # j => p[i] # p[j]}
\* every order a descending sort on Key may produce (ties in any order)
SortedDesc(S, key) ==
  {p \in Perms(S) : \A i, j \in 1..Cardinality(S) : i < j => key[p[i]] >= key[p[j]]}
\* every choice of the k largest by Key (ties at the cut in any way)
TopK(S, k, key) ==
  {T \in SUBSET S : /\ Cardinality(T) = Min(k, Cardinality(S))
                    /\ \A a \in T, b \in S \ T : key[a] >= key[b]}

\* ORDER BY stored_at DESC LIMIT count: rows with equal stored_at come in an
\* order SQL leaves open
StoredAt == [r \in RowIds |-> rows[r].stored_at]
RecentOrders == SortedDesc(RowIds, StoredAt)
RecentWindow(p, count) == SubSeq(p, 1, Min(count, Len(p)))
\* get_recent(count) as a set of outcomes: the ids of the records returned,
\* or an exception out of _row_to_record
WindowDecodes(w) == \A i \in 1..Len(w) : RowDecodes(rows[w[i]])
get_recent_outcomes(count) ==
  {[ok |-> WindowDecodes(RecentWindow(p, count)),
    recs |-> [i \in 1..Len(RecentWindow(p, count)) |->
                rows[RecentWindow(p, count)[i]].id]] : p \in RecentOrders}

get_recent ==
  /\ \E count \in Limits : \E o \in get_recent_outcomes(count) :
       last' = [Idle EXCEPT !.op = "get_recent", !.limit = count,
                            !.raised = ~o.ok,
                            !.recs = IF o.ok THEN o.recs ELSE <<>>]
  /\ UNCHANGED <<tiers, config, triggers, threads, txn, rows, vss, cache, now>>

\* get_records_without_embeddings(limit): ... WHERE embedding IS NULL ORDER
\* BY stored_at DESC LIMIT limit
WithoutEmbeddings == RowIds \ EmbeddedRows
get_records_without_embeddings ==
  /\ \E limit \in Limits : \E p \in SortedDesc(WithoutEmbeddings, StoredAt) :
       LET w == RecentWindow(p, limit)
       IN last' = [Idle EXCEPT !.op = "get_records_without_embeddings",
                               !.limit = limit,
                               !.raised = ~WindowDecodes(w),
                               !.recs = IF WindowDecodes(w)
                                        THEN [i \in 1..Len(w) |-> rows[w[i]].id]
                                        ELSE <<>>]
  /\ UNCHANGED <<tiers, config, triggers, threads, txn, rows, vss, cache, now>>

\* ------------------------------------------------------ embedding updates
\* The UPDATE ... SET embedding statement. update_embedding and
\* batch_update_embeddings open their connection without sqlite_vss.load;
\* when the file holds the triggers, compiling the UPDATE compiles the trigger
\* memory_embedding_update, whose INSERT OR REPLACE INTO
\* vss_memory_embeddings fails with "no such module: vss0".
UpdateCompiles == ~triggers

\* (variant: the UPDATE also sets stored_at, to the time of the call)
SetEmbedding_and_stored_at(rs, id, embedding) ==
  [r \in 1..Len(rs) |->
     IF rs[r].id = id
     THEN [rs[r] EXCEPT !.embedding = json_dumps(embedding), !.stored_at = MaxTime]
     ELSE rs[r]]
\* one UPDATE memory_records SET embedding = ? WHERE id = ?
SetEmbedding(rs, id, embedding) ==
  [r \in 1..Len(rs) |->
     IF rs[r].id = id
     THEN [rs[r] EXCEPT !.embedding = json_dumps(embedding)] ELSE rs[r]]
Matched(rs, id) == Cardinality({r \in 1..Len(rs) : rs[r].id = id})

\* update_embedding(memory_id, embedding)
update_embedding ==
  /\ \E id \in 1..NextId, v \in Vecs :
       IF ~UpdateCompiles
       THEN \* except Exception: return False
            /\ rows' = rows
            /\ last' = [Idle EXCEPT !.op = "update_embedding", !.id = id,
                                    !.vec = v, !.flag = FALSE]
       ELSE /\ rows' = SetEmbedding(rows, id, PyList(v))
            /\ last' = [Idle EXCEPT !.op = "update_embedding", !.id = id,
                                    !.vec = v, !.flag = Matched(rows, id) > 0]
  /\ UNCHANGED <<tiers, config, triggers, threads, txn, vss, cache, now>>

\* executemany: the statements run in list order, rowcount is their sum
RECURSIVE ExecuteMany(_, _)
ExecuteMany(rs, pairs) ==
  IF pairs = <<>> THEN rs
  ELSE ExecuteMany(SetEmbedding(rs, pairs[1][1], PyList(pairs[1][2])), Tail(pairs))
RECURSIVE RowCount(_, _)
RowCount(rs, pairs) ==
  IF pairs = <<>> THEN 0
  ELSE Matched(rs, pairs[1][1]) + RowCount(rs, Tail(pairs))

\* embeddings_data lists: ids stored or not, embeddings from V
BatchInputsOver(V) ==
  UNION {[1..n -> (1..NextId) \X V] : n \in 0..MaxBatch}
BatchInputs == BatchInputsOver(Vecs)

\* batch_update_embeddings(embeddings_data), the embeddings drawn from V
batch_update_embeddings_over(V) ==
  /\ \E pairs \in BatchInputsOver(V) :
       IF pairs = <<>> \/ ~UpdateCompiles
       THEN \* empty list, or except Exception: return 0
            /\ rows' = rows
            /\ last' = [Idle EXCEPT !.op = "batch_update_embeddings",
                                    !.pairs = pairs, !.n = 0]
       ELSE /\ rows' = ExecuteMany(rows, pairs)
            /\ last' = [Idle EXCEPT !.op = "batch_update_embeddings",
                                    !.pairs = pairs, !.n = RowCount(rows, pairs)]
  /\ UNCHANGED <<tiers, config, triggers, threads, txn, vss, cache, now>>
batch_update_embeddings == batch_update_embeddings_over(Vecs)

\* (variant: the coverage is computed without the test total > 0)
EmbeddingStatistics_unguarded(rs) ==
  LET total == Len(rs)
      with_embeddings == Cardinality({r \in 1..Len(rs) : rs[r].embedding # SqlNull})
  IN [total_records |-> total,
      records_with_embeddings |-> with_embeddings,
      records_without_embeddings |-> total - with_embeddings,
      embedding_coverage |-> <<with_embeddings * 100, total>>]
\* get_embedding_statistics(); embedding_coverage is kept as the fraction
\* <<numerator, denominator>> of with_embeddings / total * 100
EmbeddingStatistics(rs) ==
  LET total == Len(rs)
      with_embeddings == Cardinality({r \in 1..Len(rs) : rs[r].embedding # SqlNull})
  IN [total_records |-> total,
      records_with_embeddings |-> with_embeddings,
      records_without_embeddings |-> total - with_embeddings,
      embedding_coverage |-> IF total > 0 THEN <<with_embeddings * 100, total>>
                             ELSE <<0, 1>>]

get_embedding_statistics ==
  /\ last' = [Idle EXCEPT !.op = "get_embedding_statistics",
                          !.stats = EmbeddingStatistics(rows)]
  /\ UNCHANGED <<tiers, config, triggers, threads, txn, rows, vss, cache, now>>

\* ---------------------------------------------------------------- backfill
\* (variant: the query has no LEFT JOIN ... v.rowid IS NULL filter)
NotInVectorTable_without_join == EmbeddedRows
\* SELECT m.rowid ... LEFT JOIN vss_memory_embeddings v ... WHERE m.embedding
\* IS NOT NULL AND v.rowid IS NULL
NotInVectorTable == {r \in EmbeddedRows : ~\E e \in vss : e[1] = r}
\* the INSERT INTO vss_memory_embeddings of one row; an embedding text that
\* is no vector makes it raise, which the loop catches and does not count
Migratable(r) == json_decodable(rows[r].embedding)

\* migrate_existing_embeddings()
migrate_existing_embeddings ==
  /\ IF ~vector_search_enabled
     THEN \* "Vector search not enabled, skipping migration"
          /\ vss' = vss
          /\ last' = [Idle EXCEPT !.op = "migrate_existing_embeddings", !.n = 0]
     ELSE LET migrated == {r \in NotInVectorTable : Migratable(r)}
          IN /\ vss' = vss \cup {<<r, json_loads(rows[r].embedding)[2]>> :
                                    r \in migrated}
             /\ last' = [Idle EXCEPT !.op = "migrate_existing_embeddings",
                                     !.n = Cardinality(migrated)]
  /\ UNCHANGED <<tiers, config, triggers, threads, txn, rows, cache, now>>

\* -------------------------------------------------------- embedding cache
\* _get_current_embedding_count()
_get_current_embedding_count == Cardinality(EmbeddedRows)

\* (variant: the count of embedded rows is not compared)
_needs_cache_rebuild_when_none ==
  /\ enable_index_caching
  /\ _embedding_cache = PyNone

\* _needs_cache_rebuild()
_needs_cache_rebuild ==
  /\ enable_index_caching
  /\ \/ _embedding_cache = PyNone
     \/ _get_current_embedding_count > _cache_record_count

\* _rebuild_embedding_cache(): SELECT rowid, embedding ... WHERE embedding IS
\* NOT NULL ORDER BY rowid; json.loads raises before anything is assigned
EmbeddedSeq == SelectSeq([r \in RowIds |-> r], LAMBDA r : Embedded(r))
RebuildRaises == \E r \in EmbeddedRows : ~json_decodable(rows[r].embedding)
_rebuild_embedding_cache ==
  IF EmbeddedSeq # <<>>
  THEN << <<"array", [i \in 1..Len(EmbeddedSeq) |->
                        json_loads(rows[EmbeddedSeq[i]].embedding)[2]]>>,
          <<"array", EmbeddedSeq>>,
          Len(EmbeddedSeq) >>
  ELSE <<PyNone, PyNone, 0>>

\* np.argpartition(valid_similarities, -limit)[-limit:] on more than limit
\* valid entries: the limit largest, and for limit = 0 the slice [-0:] is
\* the whole array
ArgPartitionTail(valid, limit, score) ==
  IF limit = 0 THEN {valid} ELSE TopK(valid, limit, score)

\* (variant: the threshold is not applied)
valid_indices_unfiltered(q, vecs, min) ==
  {i \in 1..Len(vecs) : ~IsNaN(q, vecs[i])}
\* valid_indices = similarities >= min_similarity
valid_indices(q, vecs, min) ==
  {i \in 1..Len(vecs) : ~IsNaN(q, vecs[i]) /\ NpSimilarity(q, vecs[i]) >= min}

\* the (id, score) list a ranking p over row ids gives
Ranked(p, rowid_at, score) ==
  [k \in 1..Len(p) |-> <<rows[rowid_at[p[k]]].id, score[p[k]]>>]
Fetched(p, rowid_at) == \A k \in 1..Len(p) : RowDecodes(rows[rowid_at[p[k]]])

\* _cached_similarity_search(query_embedding, limit, min_similarity) as a
\* set of outcomes: the list returned or an exception, and the cache left
_cached_similarity_search(q, limit, min) ==
  IF _needs_cache_rebuild /\ RebuildRaises
  THEN {[ok |-> FALSE, results |-> <<>>, cache |-> cache]}
  ELSE
    LET c == IF _needs_cache_rebuild THEN _rebuild_embedding_cache ELSE cache
    IN IF c[1] = PyNone
       THEN {[ok |-> TRUE, results |-> <<>>, cache |-> c]}
       ELSE
         LET vecs == c[1][2]
             rowids == c[2][2]
             score == [i \in 1..Len(vecs) |-> NpSimilarity(q, vecs[i])]
             valid == valid_indices(q, vecs, min)
             tops == IF Cardinality(valid) > limit
                     THEN ArgPartitionTail(valid, limit, score)
                     ELSE {valid}
             orders == UNION {SortedDesc(T, score) : T \in tops}
         IN {[ok |-> Fetched(p, rowids),
              results |-> IF Fetched(p, rowids)
                          THEN Ranked(p, rowids, score) ELSE <<>>,
              cache |-> c] : p \in orders}

\* the sqlite-vss query: the limit nearest mirror entries by cosine distance,
\* joined to memory_records, kept when 1 - distance >= min_similarity,
\* ordered by distance; _row_to_record may raise on a joined row
vss_search(q, limit, min) ==
  LET score == [e \in vss |-> NpSimilarity(q, e[2])]
      rowid_at == [e \in vss |-> e[1]]
      near == {e \in vss : ~IsNaN(q, e[2])}
      orders == UNION {SortedDesc({e \in T : score[e] >= min}, score) :
                         T \in TopK(near, limit, score)}
  IN {[ok |-> Fetched(p, rowid_at),
       results |-> IF Fetched(p, rowid_at)
                   THEN Ranked(p, rowid_at, score) ELSE <<>>] : p \in orders}

\* [(record, 0.0) for record in self.get_recent(limit)]
recent_fallback(limit) ==
  {[ok |-> o.ok,
    results |-> [k \in 1..Len(o.recs) |-> <<o.recs[k], 0>>]] :
     o \in {x \in get_recent_outcomes(limit) : x.ok}
           \cup {[ok |-> FALSE, recs |-> <<>>] :
                   x \in {y \in get_recent_outcomes(limit) : ~y.ok}}}

\* (variant: the cached search is skipped)
uses_cache_never == FALSE
\* if self.enable_index_caching: try the cached search first
uses_cache == enable_index_caching

\* (variant: the exception of the sqlite-vss query is not handled)
on_index_failure_reraises(limit) == {[ok |-> FALSE, results |-> <<>>]}
\* except Exception around the sqlite-vss query: fall back to get_recent
on_index_failure(limit) == recent_fallback(limit)

Searched(q, limit, min, tried, o) ==
  [Idle EXCEPT !.op = "vector_similarity_search", !.vec = q, !.limit = limit,
               !.min = min, !.tried = tried, !.raised = ~o.ok,
               !.results = o.results]

\* vector_similarity_search(query_embedding, limit, min_similarity).
\* cache_fails / index_fails: an exception out of sqlite3 or sqlite_vss in
\* that layer (connect, load, execute), raised before the layer changes state
vector_similarity_search ==
  /\ \E q \in Queries, limit \in Limits, min \in MinSimilarities,
        cache_fails \in IF vector_search_enabled /\ enable_index_caching
                        THEN BOOLEAN ELSE {FALSE},
        index_fails \in IF vector_search_enabled THEN BOOLEAN ELSE {FALSE} :
       IF ~vector_search_enabled
       THEN /\ \E r \in recent_fallback(limit) :
                 last' = Searched(q, limit, min, <<"recency">>, r)
            /\ UNCHANGED cache
       ELSE \E c \in IF uses_cache /\ ~cache_fails
                     THEN _cached_similarity_search(q, limit, min)
                     ELSE {[ok |-> FALSE, results |-> <<>>, cache |-> cache]} :
              /\ _embedding_cache' = c.cache[1]
              /\ _rowid_cache' = c.cache[2]
              /\ _cache_record_count' = c.cache[3]
              /\ LET first == IF uses_cache THEN <<"cache">> ELSE <<>>
                     \* last.flag: a layer failed for a reason outside the
                     \* stored data
                     env == cache_fails \/ index_fails
                 IN IF c.ok
                    THEN last' = Searched(q, limit, min, first, c)
                    ELSE \E x \in IF index_fails
                                  THEN {[ok |-> FALSE, results |-> <<>>]}
                                  ELSE vss_search(q, limit, min) :
                           IF x.ok
                           THEN last' = [Searched(q, limit, min,
                                                  first \o <<"index">>, x)
                                           EXCEPT !.flag = env]
                           ELSE \E r \in on_index_failure(limit) :
                                  last' = [Searched(q, limit, min,
                                             first \o <<"index", "recency">>, r)
                                             EXCEPT !.flag = env]
  /\ UNCHANGED <<tiers, config, triggers, threads, txn, rows, vss, now>>


Next ==
  \/ store
  \/ store_record(Embeddings, EvolutionMetadatas)
  \/ retrieve
  \/ get_recent
  \/ get_records_without_embeddings
  \/ update_embedding
  \/ batch_update_embeddings
  \/ get_embedding_statistics
  \/ migrate_existing_embeddings
  \/ vector_similarity_search

Spec == Init /\ [][Next]_vars

\* the record store alone: store, look up, list
PlainEmbeddings == {PyNone, PyList(<<>>), PyList(<<1, 0>>)}
NextStore ==
  \/ store
  \/ store_record(PlainEmbeddings, EvolutionMetadatas)
  \/ retrieve
  \/ get_recent
SpecStore == Init /\ [][NextStore]_vars

\* storing embedded records and searching them, over a file that may hold a
\* damaged row
VectorEmbeddings == {PyNone, PyList(<<1, 0>>), PyList(<<3, 4>>)}
NextSearch ==
  \/ store_record(VectorEmbeddings, {PyNone})
  \/ vector_similarity_search
SpecSearch == InitDamaged /\ [][NextSearch]_vars

\* the embedding backfill operations
NextEmbed ==
  \/ store_record({PyNone, PyList(<<1, 0>>)}, {PyNone})
  \/ update_embedding
  \/ batch_update_embeddings
  \/ get_embedding_statistics
  \/ migrate_existing_embeddings
SpecEmbed == Init /\ [][NextEmbed]_vars

\* ---------------------------------------------------------------- claims
ResultIds(results) == {results[k][1] : k \in 1..Len(results)}
IsSearch(l) == l.op = "vector_similarity_search"
LastTried(l) == l.tried[Len(l.tried)]
NonIncreasing(results) ==
  \A i, j \in 1..Len(results) : i < j => results[i][2] >= results[j][2]

\* the stored vector of a row whose embedding decodes
VectorOf(r) == json_loads(rows[r].embedding)[2]
Scored(q, min) ==
  {r \in RowIds : /\ rows[r].embedding \notin {SqlNull, Garbage}
                  /\ ~IsNaN(q, VectorOf(r))
                  /\ NpSimilarity(q, VectorOf(r)) >= min}
\* row r scores at least min and fewer than limit other rows score as high
Qualifies(r, q, limit, min) ==
  /\ r \in Scored(q, min)
  /\ Cardinality({x \in Scored(q, min) \ {r} :
                    NpSimilarity(q, VectorOf(x)) >= NpSimilarity(q, VectorOf(r))})
       < limit

\* C1: the search that follows a store_record of an embedded record returns
\* that record whenever the query scores it at or above min_similarity and
\* within the top limit.
C1_Freshness ==
  [][(/\ last.op = "store_record" /\ ~last.raised
      /\ Truthy(last.rec.embedding)
      /\ IsSearch(last') /\ ~last'.raised
      /\ Qualifies(RowOf(last.id), last'.vec, last'.limit, last'.min))
     => last.id \in ResultIds(last'.results)]_vars

\* C2: get_recent(N) over N stored rows returns them newest row first,
\* whatever their stored_at values.
C2_RecencyOrder ==
  (last.op = "get_recent" /\ ~last.raised /\ last.limit = Len(rows))
  => last.recs = [i \in 1..Len(rows) |-> rows[Len(rows) + 1 - i].id]

\* C3: retrieve of the id store_record returned gives back the record's
\* fields: evolution_metadata, and the embedding when one is present.
C3_RoundTrip ==
  [][(/\ last.op = "store_record" /\ ~last.raised
      /\ last'.op = "retrieve" /\ last'.id = last.id)
     => /\ last'.found
        /\ last'.out.id = last.rec.id
        /\ last'.out.stored_at = last.rec.stored_at
        /\ last'.out.evolution_metadata = last.rec.evolution_metadata
        /\ Truthy(last.rec.embedding)
             => last'.out.embedding = last.rec.embedding]_vars

C6_RankedAndFiltered ==
  (IsSearch(last) /\ ~last.raised)
  => /\ NonIncreasing(last.results)
     /\ \A k \in 1..Len(last.results) : last.results[k][2] >= last.min

\* C6 as amended: that holds of the lists the cache and the index return; a
\* recency list pairs every record with 0.0, whatever min_similarity is.
C6_RankedUnlessRecency ==
  (IsSearch(last) /\ ~last.raised)
  => IF LastTried(last) = "recency"
     THEN \A k \in 1..Len(last.results) : last.results[k][2] = 0
     ELSE /\ NonIncreasing(last.results)
          /\ \A k \in 1..Len(last.results) : last.results[k][2] >= last.min
C6_Witness ==
  /\ IsSearch(last) /\ ~last.raised
  /\ last.tried = <<"cache">>
  /\ last.min > 0
  /\ Len(last.results) = 1
  /\ Cardinality(EmbeddedRows) > 1

\* C7: the call returns at most limit results.
C7_AtMostLimit ==
  (IsSearch(last) /\ ~last.raised) => Len(last.results) <= last.limit

\* C8: update_embedding returns true exactly when the id is stored, and then
\* the row holds the new embedding and, with the index enabled, so does the
\* mirror.
C8_UpdateEmbedding ==
  last.op = "update_embedding"
  => /\ last.flag = HasId(last.id)
     /\ HasId(last.id)
          => /\ rows[RowOf(last.id)].embedding = json_dumps(PyList(last.vec))
             /\ vector_search_enabled
                  => <<RowOf(last.id), last.vec>> \in vss

\* C9: a batch over K distinct stored records without embeddings returns K
\* and moves K records from without to with embeddings.
BatchIds(pairs) == {pairs[k][1] : k \in 1..Len(pairs)}
C9_BatchAccounting ==
  [][(/\ last'.op = "batch_update_embeddings"
      /\ Cardinality(BatchIds(last'.pairs)) = Len(last'.pairs)
      /\ \A id \in BatchIds(last'.pairs) :
           HasId(id) /\ ~Embedded(RowOf(id)))
     => /\ last'.n = Len(last'.pairs)
        /\ EmbeddingStatistics(rows').records_with_embeddings
             = EmbeddingStatistics(rows).records_with_embeddings + Len(last'.pairs)
        /\ EmbeddingStatistics(rows').records_without_embeddings
             = EmbeddingStatistics(rows).records_without_embeddings - Len(last'.pairs)]_vars

\* C10: batch_update_embeddings returns the number of rows its pairs
\* matched, for unknown and repeated ids too.
C10_RowsMatched ==
  last.op = "batch_update_embeddings"
  => last.n = Cardinality({r \in RowIds : rows[r].id \in BatchIds(last.pairs)})

C12_MirroredOnStore ==
  (/\ last.op = "store_record" /\ ~last.raised
   /\ Truthy(last.rec.embedding)
   /\ vector_search_enabled)
  => <<RowOf(last.id), last.rec.embedding[2]>> \in vss
C12_Witness ==
  /\ last.op = "store_record" /\ ~last.raised
  /\ Truthy(last.rec.embedding)
  /\ vector_search_enabled
  /\ Len(rows) = 2

\* C13: the mirror holds at most one entry per rowid, and only for rows whose
\* embedding is present, whatever store_record, update_embedding,
\* batch_update_embeddings and migrate_existing_embeddings did.
C13_MirrorInvariant ==
  /\ \A e1 \in vss : \A e2 \in vss : e1[1] = e2[1] => e1 = e2
  /\ \A e \in vss : e[1] \in EmbeddedRows
C13_Witness ==
  /\ last.op = "migrate_existing_embeddings"
  /\ Cardinality(vss) = 2
  /\ Cardinality(EmbeddedRows) = 2
  /\ \E r \in RowIds : rows[r].stored_at = 2

\* an instance over its lifetime: writes, backfill and searches
NextAvailability ==
  \/ store
  \/ store_record({PyNone, PyList(<<1, 0>>)}, {PyNone})
  \/ update_embedding
  \/ migrate_existing_embeddings
  \/ vector_similarity_search
SpecAvailability == Init /\ [][NextAvailability]_vars

\* C14: an instance whose vector_search_enabled is false keeps it false, and
\* every operation it then runs completes without going to the native index:
\* the mirror is left alone, a search goes straight to recency, and a store
\* raises for nothing but an id that is already stored.
C14_DisabledIsTerminal ==
  [][~vector_search_enabled
     => /\ ~vector_search_enabled'
        /\ vss' = vss
        /\ IsSearch(last') => last'.tried = <<"recency">>
        /\ (last'.op \in {"store", "store_record"} /\ last'.raised)
             => HasId(last'.id)]_vars

\* ------------------------------------------- searches on several threads
\* _cached_similarity_search statement by statement, for the threads that
\* call vector_similarity_search on one instance at the same time. A thread
\* keeps the local lists of its rebuild (embeddings, rowids) and the two
\* arrays its search has read (seen_embeddings, seen_rowids).
Published(array) == IF array = NoArray THEN PyNone ELSE array
Step(t, s) == threads' = [threads EXCEPT ![t] = s]
At(t, pc) == threads[t].pc = pc

\* vector_similarity_search enters _cached_similarity_search, which asks
\* _needs_cache_rebuild()
search_begin(t) ==
  /\ At(t, "idle")
  /\ vector_search_enabled /\ enable_index_caching
  /\ Step(t, [IdleThread EXCEPT !.pc = IF _needs_cache_rebuild
                                       THEN "select" ELSE "check_cache"])
  /\ UNCHANGED <<tiers, config, triggers, rows, vss, cache, now, last, txn>>

\* _rebuild_embedding_cache: the SELECT and the loop that fills the local
\* lists; json.loads may raise, which ends the cached search
rebuild_select(t) ==
  /\ At(t, "select")
  /\ IF RebuildRaises
     THEN Step(t, IdleThread)
     ELSE Step(t, [threads[t] EXCEPT
                     !.pc = "assign_embedding_cache",
                     !.embeddings = <<"array", [i \in 1..Len(EmbeddedSeq) |->
                        json_loads(rows[EmbeddedSeq[i]].embedding)[2]]>>,
                     !.rowids = <<"array", EmbeddedSeq>>])
  /\ UNCHANGED <<tiers, config, triggers, rows, vss, cache, now, last, txn>>

\* self._embedding_cache = np.array(embeddings)   (or None)
rebuild_assign_embedding_cache(t) ==
  /\ At(t, "assign_embedding_cache")
  /\ _embedding_cache' = Published(threads[t].embeddings)
  /\ Step(t, [threads[t] EXCEPT !.pc = "assign_rowid_cache"])
  /\ UNCHANGED <<tiers, config, triggers, rows, vss, _rowid_cache,
                 _cache_record_count, now, last, txn>>

\* self._rowid_cache = np.array(rowids)   (or None)
rebuild_assign_rowid_cache(t) ==
  /\ At(t, "assign_rowid_cache")
  /\ _rowid_cache' = Published(threads[t].rowids)
  /\ Step(t, [threads[t] EXCEPT !.pc = "assign_cache_record_count"])
  /\ UNCHANGED <<tiers, config, triggers, rows, vss, _embedding_cache,
                 _cache_record_count, now, last, txn>>

\* self._cache_record_count = len(embeddings)   (or 0)
rebuild_assign_cache_record_count(t) ==
  /\ At(t, "assign_cache_record_count")
  /\ _cache_record_count' = Len(threads[t].embeddings[2])
  /\ Step(t, [IdleThread EXCEPT !.pc = "check_cache"])
  /\ UNCHANGED <<tiers, config, triggers, rows, vss, _embedding_cache,
                 _rowid_cache, now, last, txn>>

\* if self._embedding_cache is None: return []
search_check_cache(t) ==
  /\ At(t, "check_cache")
  /\ Step(t, IF _embedding_cache = PyNone THEN IdleThread
             ELSE [IdleThread EXCEPT !.pc = "read_embedding_cache"])
  /\ UNCHANGED <<tiers, config, triggers, rows, vss, cache, now, last, txn>>

\* cache_norms = self._embedding_cache / ...: the vector array is read
search_read_embedding_cache(t) ==
  /\ At(t, "read_embedding_cache")
  /\ Step(t, IF _embedding_cache = PyNone THEN IdleThread
             ELSE [IdleThread EXCEPT !.pc = "read_rowid_cache",
                                     !.seen_embeddings = _embedding_cache])
  /\ UNCHANGED <<tiers, config, triggers, rows, vss, cache, now, last, txn>>

\* valid_rowids = self._rowid_cache[valid_indices]: the row-identifier array
\* is read
search_read_rowid_cache(t) ==
  /\ At(t, "read_rowid_cache")
  /\ Step(t, [threads[t] EXCEPT !.pc = "ranked",
                                !.seen_rowids = _rowid_cache])
  /\ UNCHANGED <<tiers, config, triggers, rows, vss, cache, now, last, txn>>

\* the rest of the search works on the arrays read, and returns
search_return(t) ==
  /\ At(t, "ranked")
  /\ Step(t, IdleThread)
  /\ UNCHANGED <<tiers, config, triggers, rows, vss, cache, now, last, txn>>

NextConcurrent ==
  \/ store_record({PyList(<<1, 0>>), PyList(<<3, 4>>)}, {PyNone})
  \/ \E t \in Threads : search_begin(t)
  \/ \E t \in Threads : rebuild_select(t)
  \/ \E t \in Threads : rebuild_assign_embedding_cache(t)
  \/ \E t \in Threads : rebuild_assign_rowid_cache(t)
  \/ \E t \in Threads : rebuild_assign_cache_record_count(t)
  \/ \E t \in Threads : search_check_cache(t)
  \/ \E t \in Threads : search_read_embedding_cache(t)
  \/ \E t \in Threads : search_read_rowid_cache(t)
  \/ \E t \in Threads : search_return(t)
SpecConcurrent == Init /\ [][NextConcurrent]_vars

\* C15: the vector array and the row-identifier array a search has read come
\* from one build: the identifiers are those of the rows the vectors were
\* loaded from.
C15_OneSnapshot ==
  \A t \in Threads :
    At(t, "ranked")
    => /\ threads[t].seen_rowids # PyNone
       /\ Len(threads[t].seen_rowids[2]) = Len(threads[t].seen_embeddings[2])
       /\ \A i \in 1..Len(threads[t].seen_rowids[2]) :
            threads[t].seen_embeddings[2][i] = VectorOf(threads[t].seen_rowids[2][i])

\* ------------------------------------ a batch update beside other readers
\* batch_update_embeddings statement by statement. The method's connection
\* opens a transaction at its first UPDATE and commits when the with block
\* ends, or rolls back when executemany raises; the other methods read
\* through connections of their own, which see the committed table (rows)
\* while txn.work is the table as the batch's connection has it.

\* (variant: every statement of the batch commits on its own)
SeenBeforeCommit_autocommit(committed, work) == work
\* what other connections see while the transaction is open
SeenBeforeCommit(committed, work) == committed

\* with sqlite3.connect(...) as conn: conn.executemany(...) is entered.
\* fails_at = k: sqlite3 cannot bind the parameters of pair k and raises.
\* The embeddings of the pairs are drawn from V.
batch_begin(V) ==
  /\ txn.pc = "idle"
  /\ \E pairs \in BatchInputsOver(V), fails_at \in 0..MaxBatch :
       /\ fails_at <= Len(pairs)
       /\ IF pairs = <<>> \/ ~UpdateCompiles
          THEN \* if not embeddings_data: return 0, or except Exception: return 0
               /\ fails_at = 0
               /\ txn' = txn
               /\ last' = [Idle EXCEPT !.op = "batch_update_embeddings",
                                       !.pairs = pairs, !.n = 0]
          ELSE /\ txn' = [pc |-> "open", pairs |-> pairs, done |-> 0,
                          fails_at |-> fails_at, before |-> rows, work |-> rows]
               /\ last' = [Idle EXCEPT !.op = "executemany", !.pairs = pairs]
  /\ UNCHANGED <<tiers, config, triggers, threads, rows, vss, cache, now>>

\* one UPDATE of the executemany, inside the transaction
batch_execute ==
  /\ txn.pc = "open"
  /\ txn.done < Len(txn.pairs)
  /\ txn.done + 1 # txn.fails_at
  /\ LET pair == txn.pairs[txn.done + 1]
         work == SetEmbedding(txn.work, pair[1], PyList(pair[2]))
     IN /\ txn' = [txn EXCEPT !.done = txn.done + 1, !.work = work]
        /\ rows' = SeenBeforeCommit(rows, work)
  /\ UNCHANGED <<tiers, config, triggers, threads, vss, cache, now, last>>

\* executemany raises: the with block rolls back, except Exception: return 0
batch_fail ==
  /\ txn.pc = "open"
  /\ txn.done + 1 = txn.fails_at
  /\ txn' = NoTxn
  /\ last' = [Idle EXCEPT !.op = "batch_update_embeddings",
                          !.pairs = txn.pairs, !.n = 0]
  /\ UNCHANGED <<tiers, config, triggers, threads, rows, vss, cache, now>>

\* the with block ends: commit, return cursor.rowcount
batch_commit ==
  /\ txn.pc = "open"
  /\ txn.done = Len(txn.pairs)
  /\ rows' = txn.work
  /\ txn' = NoTxn
  /\ last' = [Idle EXCEPT !.op = "batch_update_embeddings",
                          !.pairs = txn.pairs,
                          !.n = RowCount(txn.before, txn.pairs)]
  /\ UNCHANGED <<tiers, config, triggers, threads, vss, cache, now>>

\* SQLite admits one writer: a store waits for the batch's transaction.
\* get_embedding_statistics stands for the readers: each of them reads the
\* committed table through a connection of its own.
NextBatch ==
  \/ (txn.pc = "idle" /\ store)
  \/ batch_begin({<<3, 4>>})
  \/ batch_execute
  \/ batch_fail
  \/ batch_commit
  \/ get_embedding_statistics
SpecBatch == Init /\ [][NextBatch]_vars

\* C16: while a batch is in flight the table other connections read is the
\* one from before the batch; it changes only at the end of the batch, to
\* the table with every pair applied, and a batch that failed part-way
\* leaves it as it was.
C16_BatchIsAtomic ==
  [][txn.pc = "open"
     => /\ rows = txn.before
        /\ \/ rows' = rows
           \/ /\ txn'.pc = "idle"
              /\ txn.fails_at = 0
              /\ rows' = ExecuteMany(rows, txn.pairs)]_vars
\* a reader ran while the batch had applied one of its two updates
C16_Witness ==
  /\ txn.pc = "open" /\ Len(txn.pairs) = 2 /\ txn.done = 1
  /\ txn.pairs[1][1] # txn.pairs[2][1]
  /\ txn.work # rows
  /\ last.op = "get_embedding_statistics"
  /\ last.stats = EmbeddingStatistics(txn.before)

\* --------------------------------------------------------- EmbeddingUtils
\* candidate vectors: those of Vecs, an empty list, and one of another length
CandidateVecs == Vecs \cup {<<>>, <<1>>}

\* EmbeddingUtils.cosine_similarity, in hundredths: 0.0 for an empty vector,
\* for two lengths that differ, and for a vector of magnitude 0
cosine_similarity(embedding1, embedding2) ==
  IF embedding1 = <<>> \/ embedding2 = <<>> \/ Len(embedding1) # Len(embedding2)
  THEN 0
  ELSE IF Norm(embedding1) = 0 \/ Norm(embedding2) = 0 THEN 0
  ELSE (100 * Dot(embedding1, embedding2)) \div (Norm(embedding1) * Norm(embedding2))

\* (variant: the list is not sorted)
sort_reverse_skipped(similarities) == similarities
\* similarities.sort(key=lambda x: x[1], reverse=True): a stable sort, equal
\* scores keep their list order
sort_reverse(similarities) ==
  LET n == Len(similarities)
      p == CHOOSE f \in Perms(1..n) :
             \A i, j \in 1..n :
               i < j => \/ similarities[f[i]][2] > similarities[f[j]][2]
                        \/ /\ similarities[f[i]][2] = similarities[f[j]][2]
                           /\ f[i] < f[j]
  IN [k \in 1..n |-> similarities[p[k]]]

\* EmbeddingUtils.find_most_similar: (index, score) pairs, indices from 0
find_most_similar(query_embedding, candidate_embeddings, top_k, min_similarity) ==
  IF query_embedding = <<>> \/ candidate_embeddings = <<>> THEN <<>>
  ELSE LET scored == [i \in 1..Len(candidate_embeddings) |->
                        <<i - 1, cosine_similarity(query_embedding,
                                                   candidate_embeddings[i])>>]
           similarities == SelectSeq(scored, LAMBDA x : x[2] >= min_similarity)
           sorted == sort_reverse(similarities)
       IN SubSeq(sorted, 1, Min(top_k, Len(sorted)))

CandidateLists == UNION {[1..n -> CandidateVecs] : n \in 0..MaxCandidates}

\* the arguments of a call of EmbeddingUtils.find_most_similar
Arguments ==
  {[Idle EXCEPT !.op = "arguments", !.vec = q, !.cands = cands,
                !.limit = top_k, !.min = min] :
     q \in Queries \cup {<<>>}, cands \in CandidateLists,
     top_k \in Limits, min \in MinSimilarities}

\* the call, on the arguments drawn
call_find_most_similar ==
  /\ last.op = "arguments"
  /\ last' = [last EXCEPT !.op = "find_most_similar",
                          !.results = find_most_similar(last.vec, last.cands,
                                                        last.limit, last.min)]
  /\ UNCHANGED <<tiers, config, triggers, threads, txn, rows, vss, cache, now>>

\* the utility is static and keeps no state: the arguments are all there is
InitUtils ==
  /\ vector_search_enabled = FALSE
  /\ enable_index_caching = FALSE
  /\ triggers = FALSE
  /\ threads = [t \in Threads |-> IdleThread]
  /\ txn = NoTxn
  /\ rows = <<>>
  /\ vss = {}
  /\ _embedding_cache = PyNone
  /\ _rowid_cache = PyNone
  /\ _cache_record_count = 0
  /\ now = 1
  /\ last \in Arguments
  /\ NoTiers
SpecUtils == InitUtils /\ [][call_find_most_similar]_vars

\* embedded rows, the zero vector among them, searched through the cache
NextCompare ==
  \/ store_record({PyList(<<1, 0>>), PyList(<<0, 0>>)}, {PyNone})
  \/ vector_similarity_search
SpecCompare == Init /\ [][NextCompare]_vars

\* the vectors of the embedded rows, in rowid order
EmbeddedVectors == [i \in 1..Len(EmbeddedSeq) |-> VectorOf(EmbeddedSeq[i])]
DistinctScores(q, vectors) ==
  \A i, j \in 1..Len(vectors) :
    i # j => cosine_similarity(q, vectors[i]) # cosine_similarity(q, vectors[j])

\* C17: the cached search returns the rows find_most_similar picks over the
\* vectors of the embedded rows, in the same order, zero vectors included.
\* (Stated for limit > 0 and rows whose scores differ, where neither the
\* slice of limit 0 nor the order of equal scores can tell the two apart.)
C17_CacheMatchesBruteForce ==
  (/\ IsSearch(last) /\ ~last.raised /\ last.tried = <<"cache">>
   /\ last.limit > 0
   /\ DistinctScores(last.vec, EmbeddedVectors))
  => LET brute == find_most_similar(last.vec, EmbeddedVectors,
                                    last.limit, last.min)
     IN [k \in 1..Len(last.results) |-> last.results[k][1]]
        = [k \in 1..Len(brute) |-> rows[EmbeddedSeq[brute[k][1] + 1]].id]

\* C18: find_most_similar returns at most top_k pairs of a valid index and
\* its score, no index twice, in non-increasing score order, every score
\* >= min_similarity, and no candidate left out that scores >= min_similarity
\* and higher than a pair returned; for a non-empty query a candidate with
\* a score >= min_similarity is left out only when top_k pairs are returned.
C18_FindMostSimilar ==
  last.op = "find_most_similar"
  => LET n == Len(last.cands)
         score == [i \in 0..(n - 1) |-> cosine_similarity(last.vec, last.cands[i + 1])]
         chosen == {last.results[k][1] : k \in 1..Len(last.results)}
     IN /\ Len(last.results) <= last.limit
        /\ NonIncreasing(last.results)
        /\ Cardinality(chosen) = Len(last.results)
        /\ \A k \in 1..Len(last.results) :
             /\ last.results[k][1] \in 0..(n - 1)
             /\ last.results[k][2] = score[last.results[k][1]]
             /\ last.results[k][2] >= last.min
        /\ \A i \in (0..(n - 1)) \ chosen :
             score[i] >= last.min
             => /\ last.vec # <<>> => Len(last.results) = last.limit
                /\ \A k \in 1..Len(last.results) : last.results[k][2] >= score[i]
C18_Witness ==
  /\ last.op = "find_most_similar"
  /\ Len(last.cands) = 3 /\ last.limit = 2 /\ last.min = 0
  /\ Len(last.results) = 2
  /\ last.results[1][1] > last.results[2][1]
  /\ last.results[1][2] > last.results[2][2]

\* C19: over a table without rows vector_similarity_search returns an empty
\* list and does not raise, whatever the configuration and whichever layers
\* failed; over rows none of which is embedded, the cache path returns an
\* empty list.
C19_EmptyStore ==
  IsSearch(last)
  => /\ rows = <<>> => (~last.raised /\ last.results = <<>>)
     /\ (EmbeddedRows = {} /\ last.tried = <<"cache">>)
          => (~last.raised /\ last.results = <<>>)
C19_Witness ==
  /\ IsSearch(last) /\ last.limit > 0
  /\ \/ rows = <<>> /\ last.tried = <<"cache", "index", "recency">>
     \/ rows # <<>> /\ EmbeddedRows = {} /\ last.tried = <<"cache">>

\* the reads of a file that may hold a damaged row
NextRead ==
  \/ store_record({PyNone, PyList(<<1, 0>>)}, {PyNone})
  \/ retrieve
  \/ get_recent
  \/ get_records_without_embeddings
  \/ vector_similarity_search
SpecRead == InitDamaged /\ [][NextRead]_vars

\* C20: a read that touches a row with a field that does not decode raises:
\* retrieve of that row, get_recent and get_records_without_embeddings over
\* all their rows, and a search one of whose layers failed on the stored
\* data (the cache rebuild, or a row fetched for the results).
C20_DecodeErrorsSurface ==
  /\ (last.op = "retrieve" /\ HasId(last.id) /\ ~RowDecodes(rows[RowOf(last.id)]))
       => last.raised
  /\ (last.op = "get_recent" /\ last.limit >= Len(rows)
      /\ \E r \in RowIds : ~RowDecodes(rows[r]))
       => last.raised
  /\ (last.op = "get_records_without_embeddings"
      /\ last.limit >= Cardinality(WithoutEmbeddings)
      /\ \E r \in WithoutEmbeddings : ~RowDecodes(rows[r]))
       => last.raised
  /\ (IsSearch(last) /\ ~last.flag /\ Len(last.tried) > 1)
       => last.raised

\* writes through the triggers, and the backfill of the mirror
NextMigrate ==
  \/ store_record({PyNone, PyList(<<1, 0>>)}, {PyNone})
  \/ update_embedding
  \/ migrate_existing_embeddings
SpecMigrate == Init /\ [][NextMigrate]_vars

\* searches over a file whose rows carry no embedding
NextUnembedded ==
  \/ store_record({PyNone}, {PyNone})
  \/ vector_similarity_search
SpecUnembedded == InitDamaged /\ [][NextUnembedded]_vars

\* every operation that writes an embedding or the mirror
NextMirror ==
  \/ store_record({PyNone, PyList(<<1, 0>>)}, {PyNone})
  \/ update_embedding
  \/ batch_update_embeddings_over({<<3, 4>>})
  \/ migrate_existing_embeddings
SpecMirror == Init /\ [][NextMirror]_vars

\* ------------------------------------------------ a write beside a writer
\* SQLite admits one writer at a time. Another connection (a thread, another
\* instance, another process) holds the write lock from the first statement
\* of its transaction until its commit or rollback; txn.pc = "held" is such a
\* transaction, which leaves the rows as they are.
Locked == txn.pc = "held" \/ (txn.pc = "open" /\ txn.done > 0)

holder_begin ==
  /\ txn.pc = "idle"
  /\ txn' = [NoTxn EXCEPT !.pc = "held"]
  /\ UNCHANGED <<tiers, config, triggers, threads, rows, vss, cache, now, last>>

holder_end ==
  /\ txn.pc = "held"
  /\ txn' = NoTxn
  /\ UNCHANGED <<tiers, config, triggers, threads, rows, vss, cache, now, last>>

\* the call in progress is op, or no call is in progress
Calling(op) == last.op = "busy" => last.waiting = op

\* sqlite3.connect(self.db_path) sets the connection's busy timeout (timeout
\* = 5.0 by default). The statement of a write that finds the lock held calls
\* SQLite's busy handler, which sleeps (1, 2, 5, 10, ... ms) and has the
\* statement try again, until the sleeps add up to the timeout.
write_busy ==
  /\ Locked
  /\ \E op \in {"store", "update_embedding", "batch_update_embeddings"} :
       /\ Calling(op)
       /\ (IF last.op = "busy" THEN last.busy ELSE 0) < MaxRetries
       /\ last' = [Idle EXCEPT
                     !.op = "busy", !.waiting = op,
                     !.busy = (IF last.op = "busy" THEN last.busy ELSE 0) + 1]
  /\ UNCHANGED <<tiers, config, triggers, threads, txn, rows, vss, cache, now>>

\* the busy handler gives up and the statement raises sqlite3.OperationalError
\* (database is locked): _store_record_to_db lets it through, update_embedding
\* and batch_update_embeddings catch it (except Exception) and return False / 0
write_exhausted ==
  /\ Locked
  /\ last.op = "busy" /\ last.busy = MaxRetries
  /\ last' = [Idle EXCEPT !.op = last.waiting, !.busy = last.busy,
                          !.locked = TRUE,
                          !.raised = (last.waiting = "store"),
                          !.flag = FALSE, !.n = 0]
  /\ UNCHANGED <<tiers, config, triggers, threads, txn, rows, vss, cache, now>>

\* the lock is free, at the call or at one of its retries: the statement runs
write_acquires ==
  /\ ~Locked
  /\ \/ Calling("store") /\ store
     \/ Calling("update_embedding") /\ update_embedding
     \/ Calling("batch_update_embeddings")
          /\ batch_update_embeddings_over({<<3, 4>>})

\* a file without the vector table, written by this instance and by others
InitContention == Init /\ ~triggers
NextContention ==
  \/ holder_begin
  \/ holder_end
  \/ write_busy
  \/ write_exhausted
  \/ write_acquires
SpecContention == InitContention /\ [][NextContention]_vars

\* C21: a write that finds the lock held is retried at most MaxRetries times;
\* when a retry gets the lock the write takes effect exactly once, and when
\* the retries are exhausted the call raises and the table is as it was.
C21_WriteConflict ==
  [][/\ last'.busy <= MaxRetries
     /\ (last.op = "busy" /\ last'.op # "busy" /\ ~last'.locked)
          => /\ ~last'.raised
             /\ last'.op = "store"
                  => (Len(rows') = Len(rows) + 1 /\ rows'[Len(rows')].id = last'.id)
             /\ last'.op = "update_embedding"
                  => rows' = SetEmbedding(rows, last'.id, PyList(last'.vec))
             /\ last'.op = "batch_update_embeddings"
                  => rows' = ExecuteMany(rows, last'.pairs)
     /\ last'.locked => (last'.raised /\ rows' = rows)]_vars

\* C22: a row that has an embedding keeps it: no update_embedding or
\* batch_update_embeddings call changes the stored embedding of a row whose
\* embedding is present.
C22_EmbeddingSetOnce ==
  [][last'.op \in {"update_embedding", "batch_update_embeddings"}
     => \A r \in RowIds :
          Embedded(r) => rows'[r].embedding = rows[r].embedding]_vars

\* the statistics beside the writes that move rows between the two counts
NextStatistics ==
  \/ store_record({PyNone, PyList(<<1, 0>>)}, {PyNone})
  \/ update_embedding
  \/ get_embedding_statistics
SpecStatistics == Init /\ [][NextStatistics]_vars

\* C23: get_embedding_statistics reports total_records =
\* records_with_embeddings + records_without_embeddings, each count the
\* number of such rows in the table, and an embedding_coverage of 0 (no
\* division by zero) when the table is empty, of with / total * 100 otherwise.
C23_Statistics ==
  last.op = "get_embedding_statistics"
  => /\ last.stats.total_records
          = last.stats.records_with_embeddings
            + last.stats.records_without_embeddings
     /\ last.stats.total_records = Len(rows)
     /\ last.stats.records_with_embeddings = Cardinality(EmbeddedRows)
     /\ last.stats.records_without_embeddings = Cardinality(WithoutEmbeddings)
     /\ last.stats.embedding_coverage[2] # 0
     /\ last.stats.total_records = 0 => last.stats.embedding_coverage[1] = 0
     /\ last.stats.total_records > 0
          => last.stats.embedding_coverage
               = <<100 * Cardinality(EmbeddedRows), Len(rows)>>
C23_Witness ==
  /\ last.op = "get_embedding_statistics"
  /\ last.stats.total_records = 2
  /\ last.stats.records_with_embeddings = 1
  /\ last.stats.records_without_embeddings = 1

\* ------------------------------------------- a second instance on the file
\* (variant: _init_database creates the table anew)
create_table_anew(table) == <<>>
\* CREATE TABLE IF NOT EXISTS memory_records: the table of a file that has
\* one is kept as it is
create_table_if_not_exists(table) == table

\* SQLiteMemory(config) on the db_path of the file: __init__ sets the flags
\* and an empty cache; _init_database keeps the table and, with the index
\* enabled, creates the vector table and the triggers the file lacks. The
\* instance before is out of use. last keeps the id and the record of the
\* call before, and in flag whether that call was a store that returned.
reopen ==
  /\ vector_search_enabled' \in BOOLEAN
  /\ enable_index_caching' \in BOOLEAN
  /\ triggers' = (triggers \/ vector_search_enabled')
  /\ rows' = create_table_if_not_exists(rows)
  /\ _embedding_cache' = PyNone
  /\ _rowid_cache' = PyNone
  /\ _cache_record_count' = 0
  /\ last' = [Idle EXCEPT !.op = "__init__", !.id = last.id, !.rec = last.rec,
                          !.flag = /\ last.op \in {"store", "store_record"}
                                   /\ ~last.raised]
  /\ UNCHANGED <<tiers, threads, txn, vss, now>>

\* instances that follow one another on one file, each storing and reading
NextInstances ==
  \/ store_content(Contents)
  \/ store_record({PyNone, PyList(<<1, 0>>)}, {PyNone})
  \/ reopen
  \/ retrieve
  \/ get_recent
SpecInstances == Init /\ [][NextInstances]_vars

\* C24: retrieve of a stored id finds the row of that id and get_recent over
\* the whole table lists every row, in whichever instance on the file; and
\* the instance opened after a store returns, for the id the store returned,
\* the content and stored_at of the record stored, and lists it in
\* get_recent.
C24_AcrossInstances ==
  [][/\ (last'.op = "retrieve" /\ HasId(last'.id))
          => /\ last'.found /\ ~last'.raised
             /\ last'.out.id = last'.id
             /\ last'.out.content = rows'[RowOf(last'.id)].content
     /\ (last'.op = "get_recent" /\ last'.limit >= Len(rows'))
          => /\ ~last'.raised
             /\ {last'.recs[k] : k \in 1..Len(last'.recs)}
                  = {rows'[r].id : r \in 1..Len(rows')}
     /\ (last.op = "__init__" /\ last.flag)
          => /\ (last'.op = "retrieve" /\ last'.id = last.id)
                  => /\ last'.found
                     /\ last'.out.id = last.rec.id
                     /\ last'.out.content = last.rec.content
                     /\ last'.out.stored_at = last.rec.stored_at
             /\ (last'.op = "get_recent" /\ last'.limit >= Len(rows))
                  => \E k \in 1..Len(last'.recs) : last'.recs[k] = last.id]_vars
\* a record stored by an instance with the index, read by one without it
C24_Witness ==
  /\ last.op = "retrieve" /\ last.found
  /\ last.out.content = "b"
  /\ triggers /\ ~vector_search_enabled

\* ------------------------------------------------------ the cache's age
\* embedded records, updates of their embeddings, searches
NextStale ==
  \/ store_record({PyList(<<1, 0>>)}, {PyNone})
  \/ update_embedding
  \/ batch_update_embeddings_over({<<3, 4>>})
  \/ vector_similarity_search
SpecStale == Init /\ [][NextStale]_vars

\* the cache holds row r, and the vector it holds for it
CacheHolds(r) ==
  /\ _embedding_cache # PyNone
  /\ \E i \in 1..Len(_rowid_cache[2]) : _rowid_cache[2][i] = r
CachedVectorOf(r) ==
  _embedding_cache[2][CHOOSE i \in 1..Len(_rowid_cache[2]) : _rowid_cache[2][i] = r]
\* the cache holds another vector than the table for some row, and
\* _needs_cache_rebuild() is false
Stale ==
  /\ ~_needs_cache_rebuild
  /\ \E r \in EmbeddedRows :
       /\ json_decodable(rows[r].embedding)
       /\ CacheHolds(r)
       /\ CachedVectorOf(r) # VectorOf(r)

\* C25: on an instance that searches through its cache, an update_embedding
\* or batch_update_embeddings call that gives cached rows vectors other than
\* the cached ones leaves the cache stale (the table holds the new vector, the
\* cache the old one, and _needs_cache_rebuild() is false); the cached search
\* that follows keeps the cache and scores by the cached vectors.
C25_StaleAfterUpdate ==
  [][/\ (/\ vector_search_enabled /\ enable_index_caching
         /\ ~_needs_cache_rebuild
         /\ \/ /\ last'.op = "update_embedding"
               /\ HasId(last'.id) /\ CacheHolds(RowOf(last'.id))
               /\ CachedVectorOf(RowOf(last'.id)) # last'.vec
            \/ /\ last'.op = "batch_update_embeddings"
               /\ last'.pairs # <<>>
               /\ \A k \in 1..Len(last'.pairs) :
                    /\ HasId(last'.pairs[k][1])
                    /\ CacheHolds(RowOf(last'.pairs[k][1]))
                    /\ CachedVectorOf(RowOf(last'.pairs[k][1])) # last'.pairs[k][2])
          => Stale'
     /\ (Stale /\ IsSearch(last') /\ last'.tried = <<"cache">>)
          => /\ _embedding_cache' = _embedding_cache
             /\ _rowid_cache' = _rowid_cache
             /\ \A k \in 1..Len(last'.results) :
                  last'.results[k][2]
                    = NpSimilarity(last'.vec,
                                   CachedVectorOf(RowOf(last'.results[k][1])))]_vars

\* ------------------------------------------------------- the backfill loop
\* the caller's backfill step: get_records_without_embeddings(limit) with
\* limit >= 1 ...
backfill_fetch ==
  /\ last.op # "get_records_without_embeddings"
  /\ get_records_without_embeddings
  /\ last'.limit >= 1

\* ... then batch_update_embeddings with a vector for each record returned
backfill_update ==
  /\ last.op = "get_records_without_embeddings"
  /\ ~last.raised
  /\ batch_update_embeddings_over({<<3, 4>>})
  /\ Len(last'.pairs) = Len(last.recs)
  /\ \A k \in 1..Len(last.recs) : last'.pairs[k][1] = last.recs[k]

\* records arrive without embeddings between two steps, and the caller
\* repeats the step
NextBackfill ==
  \/ (last.op # "get_records_without_embeddings"
        /\ store_record({PyNone}, {PyNone}))
  \/ backfill_fetch
  \/ backfill_update
SpecBackfill ==
  /\ Init
  /\ [][NextBackfill]_vars
  /\ WF_vars(backfill_fetch)
  /\ WF_vars(backfill_update)

\* C26: from a table that holds records without embeddings, repeating the
\* backfill step leads to a table where no record is without its embedding,
\* whether the index is enabled or not.
C26_BackfillCompletes ==
  (WithoutEmbeddings # {}) ~> (WithoutEmbeddings = {})

\* records with and without evolution_metadata, and the embedding updates
NextFrame ==
  \/ store_record({PyNone, PyList(<<1, 0>>)}, {PyNone, PyDict(<<1>>)})
  \/ update_embedding
  \/ batch_update_embeddings_over({<<3, 4>>})
SpecFrame == Init /\ [][NextFrame]_vars

\* the ids a call names
NamedIds(l) == IF l.op = "update_embedding" THEN {l.id} ELSE BatchIds(l.pairs)

\* C27: update_embedding and batch_update_embeddings leave the number and
\* the order of the rows, every field of every row but the embedding, and
\* the whole row of every id they do not name as they were; a call that
\* names no stored id leaves the table and the mirror as they were.
C27_Frame ==
  [][last'.op \in {"update_embedding", "batch_update_embeddings"}
     => /\ Len(rows') = Len(rows)
        /\ \A r \in RowIds :
             /\ [rows'[r] EXCEPT !.embedding = rows[r].embedding] = rows[r]
             /\ rows[r].id \notin NamedIds(last') => rows'[r] = rows[r]
        /\ (\A r \in RowIds : rows[r].id \notin NamedIds(last'))
             => (rows' = rows /\ vss' = vss)]_vars
\* a batch gave one of two rows its embedding; the row carries
\* evolution_metadata and a stored_at of its own
C27_Witness ==
  /\ last.op = "batch_update_embeddings" /\ last.n = 1
  /\ Len(rows) = 2
  /\ \E r \in RowIds :
       /\ rows[r].id \in BatchIds(last.pairs)
       /\ rows[r].embedding = json_dumps(PyList(<<3, 4>>))
       /\ rows[r].evolution_metadata # SqlNull
       /\ rows[r].stored_at = 1
  /\ \E r \in RowIds : rows[r].id \notin BatchIds(last.pairs)

\* C28: when _cached_similarity_search has made its staleness check, rebuilt
\* if needed, and answered, the cached row identifiers are those of the rows
\* whose embedding is present, in rowid order, the vector array is as long
\* as the row-identifier array, and _cache_record_count is that length; with
\* no embedded row the two arrays are None and the count is 0.
C28_CacheInvariant ==
  (IsSearch(last) /\ last.tried = <<"cache">>)
  => IF EmbeddedRows = {}
     THEN /\ _embedding_cache = PyNone
          /\ _rowid_cache = PyNone
          /\ _cache_record_count = 0
     ELSE /\ _embedding_cache # PyNone /\ _rowid_cache # PyNone
          /\ _rowid_cache[2] = EmbeddedSeq
          /\ Len(_embedding_cache[2]) = Len(_rowid_cache[2])
          /\ _cache_record_count = Len(_rowid_cache[2])
\* the cache was built over one row and rebuilt after a second was stored
C28_Witness ==
  /\ IsSearch(last) /\ last.tried = <<"cache">>
  /\ _cache_record_count = 2
  /\ Len(last.results) = 2

\* ========================================================= WorkingMemory
\* (agenesis/memory/working.py.) A record of the in-memory tiers has the
\* fields of MemoryRecord; its id is the uuid4() drawn for it, here the
\* number of the draw.
\* seq[-count:]; the slice [-0:] is the whole list
SliceLast(seq, count) ==
  IF count = 0 \/ count >= Len(seq) THEN seq
  ELSE SubSeq(seq, Len(seq) - count + 1, Len(seq))
IdsOf(records) == [i \in 1..Len(records) |-> records[i].id]

\* MemoryRecord(id="", ..., stored_at=None, ...) as the in-memory tiers'
\* store builds it: the id drawn for it, no embedding
FreshRecord(id, content) ==
  [id |-> id, content |-> content, stored_at |-> now,
   embedding |-> PyNone, evolution_metadata |-> PyNone]

\* if len(self._records) > self.max_capacity: pop(0), del self._id_index[...]
Evict(records, index) ==
  IF Len(records) > max_capacity
  THEN <<Tail(records),
         [k \in DOMAIN index \ {Head(records).id} |-> index[k]]>>
  ELSE <<records, index>>

\* what WorkingMemory.store does to the object, for a perception_result of
\* the given content and the id drawn: self._records.append(record),
\* self._id_index[record.id] = record, then the capacity limit
WorkingMemory_append(id, content) ==
  LET record == FreshRecord(id, content)
      kept == Evict(Append(_records, record),
                    [k \in DOMAIN _id_index \cup {id} |->
                       IF k = id THEN record ELSE _id_index[k]])
  IN /\ _records' = kept[1]
     /\ _id_index' = kept[2]

\* WorkingMemory.store(perception_result, context)
WorkingMemory_store ==
  /\ uuids < MaxUuids
  /\ \E content \in Contents : WorkingMemory_append(uuids + 1, content)
  /\ uuids' = uuids + 1
  /\ last' = [Idle EXCEPT !.op = "WorkingMemory.store", !.id = uuids + 1]
  /\ UNCHANGED <<max_capacity, _current_record, config, triggers, threads, txn,
                 rows, vss, cache, now>>

\* WorkingMemory.retrieve(memory_id): self._id_index.get(memory_id)
WorkingMemory_retrieve ==
  /\ \E id \in 1..(uuids + 1) :
       last' = IF id \in DOMAIN _id_index
               THEN [Idle EXCEPT !.op = "WorkingMemory.retrieve", !.id = id,
                                 !.found = TRUE, !.out = _id_index[id]]
               ELSE [Idle EXCEPT !.op = "WorkingMemory.retrieve", !.id = id]
  /\ UNCHANGED <<tiers, config, triggers, threads, txn, rows, vss, cache, now>>

\* WorkingMemory.get_recent(count)
WorkingMemory_get_recent ==
  /\ \E count \in Limits :
       last' = [Idle EXCEPT
                  !.op = "WorkingMemory.get_recent", !.limit = count,
                  !.recs = IF _records # <<>>
                           THEN LET recent == IdsOf(SliceLast(_records, count))
                                IN [i \in 1..Len(recent) |->
                                      recent[Len(recent) + 1 - i]]
                           ELSE <<>>]
  /\ UNCHANGED <<tiers, config, triggers, threads, txn, rows, vss, cache, now>>

\* WorkingMemory.get_all()
WorkingMemory_get_all ==
  /\ last' = [Idle EXCEPT !.op = "WorkingMemory.get_all",
                          !.recs = IdsOf(_records)]
  /\ UNCHANGED <<tiers, config, triggers, threads, txn, rows, vss, cache, now>>

\* WorkingMemory.size()
WorkingMemory_size ==
  /\ last' = [Idle EXCEPT !.op = "WorkingMemory.size", !.n = Len(_records)]
  /\ UNCHANGED <<tiers, config, triggers, threads, txn, rows, vss, cache, now>>

\* WorkingMemory(config): max_capacity from the configuration, no records
InitWorking ==
  /\ max_capacity \in 0..MaxCapacity
  /\ _records = <<>>
  /\ _id_index = <<>>
  /\ _current_record = PyNone
  /\ uuids = 0
  /\ vector_search_enabled = FALSE
  /\ enable_index_caching = FALSE
  /\ triggers = FALSE
  /\ threads = [t \in Threads |-> IdleThread]
  /\ txn = NoTxn
  /\ rows = <<>>
  /\ vss = {}
  /\ _embedding_cache = PyNone
  /\ _rowid_cache = PyNone
  /\ _cache_record_count = 0
  /\ now = 1
  /\ last = Idle
NextWorking ==
  \/ WorkingMemory_store
  \/ WorkingMemory_retrieve
  \/ WorkingMemory_get_recent
  \/ WorkingMemory_get_all
  \/ WorkingMemory_size
SpecWorking == InitWorking /\ [][NextWorking]_vars

\* the ids of the records stored so far are 1..uuids, in the order stored;
\* the last max_capacity of them, oldest first
Retained ==
  [i \in 1..Min(max_capacity, uuids) |-> uuids - Min(max_capacity, uuids) + i]

\* C29: size() is at most max_capacity, get_all() is the last max_capacity
\* records stored, oldest first, get_recent(n) the newest n of those, newest
\* first, and retrieve(id) finds a record exactly for the ids retained.
C29_Capacity ==
  /\ Len(_records) <= max_capacity
  /\ last.op = "WorkingMemory.size" => last.n = Len(Retained)
  /\ last.op = "WorkingMemory.get_all" => last.recs = Retained
  /\ last.op = "WorkingMemory.get_recent"
       => last.recs = [i \in 1..Min(last.limit, Len(Retained)) |-> uuids + 1 - i]
  /\ last.op = "WorkingMemory.retrieve"
       => /\ last.found <=> (\E i \in 1..Len(Retained) : Retained[i] = last.id)
          /\ last.found => last.out.id = last.id

\* ============================================ the tiers of one agent step
\* (agenesis/memory/immediate.py, agenesis/memory/base.py,
\* agenesis/core/agent.py.)
PyRecord(r) == <<"record", r>>

\* the record a caller hands to store_record: __post_init__ has drawn its
\* id, and it carries the embedding e
CallerRecord(id, content, e) ==
  [id |-> id, content |-> content, stored_at |-> now, embedding |-> e,
   evolution_metadata |-> PyNone]

\* ImmediateMemory.store_record is BaseMemory.store_record: return
\* self.store(memory_record.perception_result, memory_record.context), and
\* ImmediateMemory.store sets self._current_record to the record it builds.
\* The caller's record has the id of draw uuids + 1, store draws the next.
ImmediateMemory_store_record ==
  /\ uuids + 2 <= MaxUuids
  /\ \E content \in Contents, e \in {PyNone, PyList(<<1, 0>>)} :
       /\ _current_record' = PyRecord(FreshRecord(uuids + 2, content))
       /\ last' = [Idle EXCEPT !.op = "ImmediateMemory.store_record",
                               !.rec = CallerRecord(uuids + 1, content, e),
                               !.id = uuids + 2]
  /\ uuids' = uuids + 2
  /\ UNCHANGED <<max_capacity, _records, _id_index, config, triggers, threads,
                 txn, rows, vss, cache, now>>

\* WorkingMemory.store_record is BaseMemory.store_record as well
WorkingMemory_store_record ==
  /\ uuids + 2 <= MaxUuids
  /\ \E content \in Contents, e \in {PyNone, PyList(<<1, 0>>)} :
       /\ WorkingMemory_append(uuids + 2, content)
       /\ last' = [Idle EXCEPT !.op = "WorkingMemory.store_record",
                               !.rec = CallerRecord(uuids + 1, content, e),
                               !.id = uuids + 2]
  /\ uuids' = uuids + 2
  /\ UNCHANGED <<max_capacity, _current_record, config, triggers, threads,
                 txn, rows, vss, cache, now>>

\* ImmediateMemory.retrieve(memory_id)
ImmediateMemory_retrieve ==
  /\ \E id \in 1..(uuids + 1) :
       last' = IF _current_record # PyNone /\ _current_record[2].id = id
               THEN [Idle EXCEPT !.op = "ImmediateMemory.retrieve", !.id = id,
                                 !.found = TRUE, !.out = _current_record[2]]
               ELSE [Idle EXCEPT !.op = "ImmediateMemory.retrieve", !.id = id]
  /\ UNCHANGED <<tiers, config, triggers, threads, txn, rows, vss, cache, now>>

\* Agent.process_input, its storing step: one MemoryRecord, with the
\* embedding, goes to immediate_memory.store_record, working_memory
\* .store_record and persistent_memory.store_record, in that order; an
\* exception out of the last leaves the first two done
process_input ==
  /\ uuids + 3 <= MaxUuids
  /\ \E content \in Contents, e \in {PyNone, PyList(<<1, 0>>)} :
       /\ _current_record' = PyRecord(FreshRecord(uuids + 2, content))
       /\ WorkingMemory_append(uuids + 3, content)
       /\ _store_record_to_db("store_record",
                              CallerRecord(uuids + 1, content, e))
  /\ uuids' = uuids + 3
  /\ UNCHANGED <<max_capacity, config, triggers, threads, txn, cache, now>>

\* an agent on a new database file
InitAgent == Init /\ rows = <<>>
NextAgent ==
  \/ process_input
  \/ ImmediateMemory_store_record
  \/ WorkingMemory_store_record
  \/ ImmediateMemory_retrieve
  \/ WorkingMemory_retrieve
SpecAgent == InitAgent /\ [][NextAgent]_vars

\* C30: store_record(r) of ImmediateMemory and of WorkingMemory returns
\* r.id and leaves under that id a record with r's embedding, as
\* SQLiteMemory's does; after the storing step of process_input the three
\* tiers hold the record under the same id with the same embedding.
C30_SameRecordInAllTiers ==
  /\ last.op = "ImmediateMemory.store_record"
       => /\ last.id = last.rec.id
          /\ _current_record # PyNone
          /\ _current_record[2].id = last.id
          /\ _current_record[2].embedding = last.rec.embedding
  /\ last.op = "WorkingMemory.store_record"
       => /\ last.id = last.rec.id
          /\ last.id \in DOMAIN _id_index
          /\ _id_index[last.id].embedding = last.rec.embedding
  /\ (last.op = "store_record" /\ ~last.raised)
       => /\ last.id = last.rec.id
          /\ HasId(last.id)
          /\ _row_to_record(rows[RowOf(last.id)]).embedding = last.rec.embedding
          /\ _current_record # PyNone
          /\ _current_record[2].id = last.rec.id
          /\ _current_record[2].embedding = last.rec.embedding
          /\ last.rec.id \in DOMAIN _id_index
          /\ _id_index[last.rec.id].embedding = last.rec.embedding
====
